---- MODULE Spec2Model ----
(***************************************************************************)
(* The Apache Iceberg enterprise demo notebook                             *)
(* (apache_iceberg_enterprise_demo.ipynb): its two synthetic-record        *)
(* generators, and the linear run of its code cells against the Spark      *)
(* session and the two Iceberg tables local.db.customers, local.db.sales.  *)
(*                                                                         *)
(* Representation of Python values:                                        *)
(*   - an f-string such as f'CUST_{i:06d}' is the record                   *)
(*     [prefix, digits, suffix], digits being the decimal digits of i      *)
(*     left-padded with zeros to the format's width;                       *)
(*   - a datetime(y, 1, 1) + timedelta(days = d) is [year |-> y, days |-> d];*)
(*   - unit_price, a float rounded to 2 decimals, is a number of cents;    *)
(*   - discount_percentage, a float in [0, 0.3], is a number of            *)
(*     1/DiscountScale units, so that total_amount is in units of          *)
(*     1/(100 * DiscountScale);                                            *)
(*   - a list is an object of the heap, named by an object id: two         *)
(*     variables may name the same list; a list no name refers to is       *)
(*     garbage and leaves the heap;                                        *)
(*   - an exception is the outcome of the statement that raised it: its    *)
(*     class name ("NameError", "TypeError", "ImportError"), or "failed"   *)
(*     for an error the Spark engine, the table format or a shell command  *)
(*     reports.                                                            *)
(***************************************************************************)
EXTENDS Integers, Sequences, FiniteSets, TLC

VARIABLES
    heap,      \* Python lists: object id -> sequence of dicts
    ghost,     \* history, per list object: the call that built it and its draws
    frame,     \* the active generator call (its locals), or NoFrame
    pyvars,    \* the notebook's global names bound to lists: name -> object id
    round_fn,  \* what the global name round is bound to
    dfs,       \* Spark DataFrames: name -> [bound, rows]
    tables,    \* the Iceberg catalog: table -> [exists, columns, rows, snapshots]
    session,   \* the Spark session: "none", "active" or "stopped"
    pc,        \* <<cell, statement>>: the statement to run next
    status,    \* "running", "halted" (an exception ended the run), "done", "harness"
    last       \* history: the statement that ran last, and how it ended

vars == <<heap, ghost, frame, pyvars, round_fn, dfs, tables, session, pc, status, last>>

-----------------------------------------------------------------------------
(* Bounds of the model.                                                    *)

\* The notebook calls generate_customer_data(1000), generate_sales_data(5000)
\* and generate_sales_data(100); the model runs the same calls with these
\* counts in their place.
NumCustomers == 2
NumTransactions == 2
NumNewTransactions == 1
\* The callers of GenSpec pass every count in -MaxCount .. MaxCount.
MaxCount == 2

\* The random draws the model takes: each generated record takes one of
\* three draw vectors (the low end of every range, the high end, an
\* interior point).
DrawIndex == {1, 2, 3}

-----------------------------------------------------------------------------
(* Python helpers.                                                         *)

None == 0

RECURSIVE Digits(_)
\* str(i) for i >= 0, as the sequence of its decimal digits
Digits(i) ==
    IF i < 10 THEN <<i>> ELSE Append(Digits(i \div 10), i % 10)

RECURSIVE ZeroPad(_, _)
\* the format spec 0{width}d: zeros on the left up to width, never cut
ZeroPad(ds, width) ==
    IF Len(ds) >= width THEN ds ELSE ZeroPad(<<0>> \o ds, width)

\* (mutant of FString: the index counted from 1)
FStringOneBased(prefix, i, width, suffix) ==
    [prefix |-> prefix, digits |-> ZeroPad(Digits(i + 1), width),
     suffix |-> suffix]

\* f'{prefix}{i:0{width}d}{suffix}' (width 0: plain {i})
FString(prefix, i, width, suffix) ==
    [prefix |-> prefix, digits |-> ZeroPad(Digits(i), width), suffix |-> suffix]

\* the k-th value of a list of sample values, cyclically
Pick(values, k) ==
    values[((k - 1) % Len(values)) + 1]

\* (mutant of RandInt: the upper end taken as exclusive and passed as b + 1)
RandIntPastEnd(a, b) ==
    <<a, b + 1, a + ((b - a) \div 3)>>

\* random.randint(a, b) returns an integer N with a <= N <= b; the model
\* draws a, b and an interior point
RandInt(a, b) ==
    <<a, b, a + ((b - a) \div 3)>>

\* random.uniform(a, b) returns a float N with a <= N <= b; in fixed point
\* the same three draws
RandUniform(a, b) ==
    <<a, b, a + ((b - a) \div 3)>>

\* random.choice(seq) returns an element of seq
RandChoice(values) ==
    values

\* the builtin round(x, 2) of a float x given in thousandths: the number
\* of hundredths nearest to x, a tie going to the even one
Round2(x) ==
    LET q == x \div 10
        r == x % 10
    IN  IF r > 5 \/ (r = 5 /\ q % 2 = 1) THEN q + 1 ELSE q

\* range(n): the loop runs its body for i = 0, 1, ... while i < n
InRange(i, n) ==
    i < n

-----------------------------------------------------------------------------
(* The program's constants.                                                *)

RegistrationYear == 2020
RegistrationDaysMax == 1400
CreditLimitMin == 1000
CreditLimitMax == 50000
TransactionYear == 2023
TransactionDaysMax == 365
CustomerRefMax == 999
ProductMax == 100
QuantityMin == 1
QuantityMax == 10
\* random.uniform(10.0, 500.0), in thousandths
UniformPriceMin == 10000
UniformPriceMax == 500000
\* discount_percentage is in units of 1/DiscountScale; 0.3 is DiscountMax
DiscountScale == 100
DiscountMax == 30
SalesRepMax == 50

\* (mutant of CustomerSegments: a misspelt segment)
CustomerSegmentsTypo == <<"Premium", "Standart", "Basic">>
CustomerSegments == <<"Premium", "Standard", "Basic">>
Countries == <<"USA", "Canada", "UK", "Germany", "France">>
ActiveFlags == <<TRUE, FALSE>>
PaymentMethods == <<"Credit Card", "Debit Card", "Cash", "Bank Transfer">>

Builtin == "builtins.round"
\* from pyspark.sql.functions import * binds every public name of the
\* module, round among them (the notebook itself calls round(sum(...), 2)
\* on a Column)
PySparkRound == "pyspark.sql.functions.round"

-----------------------------------------------------------------------------
(* The generators.                                                         *)

\* the random draws of one iteration of generate_customer_data
CustomerDraw(k) ==
    [days |-> Pick(RandInt(0, RegistrationDaysMax), k),
     customer_segment |-> Pick(RandChoice(CustomerSegments), k),
     credit_limit |-> Pick(RandInt(CreditLimitMin, CreditLimitMax), k),
     country |-> Pick(RandChoice(Countries), k),
     is_active |-> Pick(RandChoice(ActiveFlags), k)]

\* the random draws of one iteration of generate_sales_data
SalesDraw(k) ==
    [customer |-> Pick(RandInt(0, CustomerRefMax), k),
     product |-> Pick(RandInt(1, ProductMax), k),
     days |-> Pick(RandInt(0, TransactionDaysMax), k),
     quantity |-> Pick(RandInt(QuantityMin, QuantityMax), k),
     uniform_price |-> Pick(RandUniform(UniformPriceMin, UniformPriceMax), k),
     discount_percentage |-> Pick(RandUniform(0, DiscountMax), k),
     payment_method |-> Pick(RandChoice(PaymentMethods), k),
     sales_rep |-> Pick(RandInt(1, SalesRepMax), k)]

Draws(fn) ==
    IF fn = "generate_customer_data"
    THEN {CustomerDraw(k) : k \in DrawIndex}
    ELSE {SalesDraw(k) : k \in DrawIndex}

\* the dict literal of generate_customer_data
CustomerRecord(i, d) ==
    [customer_id |-> FString("CUST_", i, 6, ""),
     first_name |-> FString("FirstName", i, 0, ""),
     last_name |-> FString("LastName", i, 0, ""),
     email |-> FString("customer", i, 0, "@enterprise.com"),
     registration_date |-> [year |-> RegistrationYear, days |-> d.days],
     customer_segment |-> d.customer_segment,
     credit_limit |-> d.credit_limit,
     country |-> d.country,
     is_active |-> d.is_active]

\* the dict literal of generate_sales_data, round being the builtin
SalesRecord(i, d) ==
    [transaction_id |-> FString("TXN_", i, 8, ""),
     customer_id |-> FString("CUST_", d.customer, 6, ""),
     product_id |-> FString("PROD_", d.product, 3, ""),
     transaction_date |-> [year |-> TransactionYear, days |-> d.days],
     quantity |-> d.quantity,
     unit_price |-> Round2(d.uniform_price),
     discount_percentage |-> d.discount_percentage,
     payment_method |-> d.payment_method,
     sales_rep |-> FString("REP_", d.sales_rep, 3, "")]

\* Whether evaluating the dict literal raises. generate_sales_data calls
\* round(random.uniform(10.0, 500.0), 2) by the global name round; when
\* that name is pyspark.sql.functions.round, its first argument must be a
\* Column or a column name, and the float makes it raise a TypeError.
\* The dict of generate_customer_data calls nothing that can raise.
RecordRaises(fn, rnd) ==
    fn = "generate_sales_data" /\ rnd = PySparkRound

\* (mutant of AppendRecord: a record takes its country or payment method
\* from the record before it)
AppendRecordCarry(fn, items, i, d) ==
    IF fn = "generate_customer_data"
    THEN Append(items,
                IF items = <<>> THEN CustomerRecord(i, d)
                ELSE [CustomerRecord(i, d) EXCEPT
                          !.country = items[Len(items)].country])
    ELSE Append(items,
                IF items = <<>> THEN SalesRecord(i, d)
                ELSE [SalesRecord(i, d) EXCEPT
                          !.payment_method = items[Len(items)].payment_method])

\* customers.append({...}) / sales.append({...}): the list after the
\* loop body has run for index i with the draws d
AppendRecord(fn, items, i, d) ==
    IF fn = "generate_customer_data"
    THEN Append(items, CustomerRecord(i, d))
    ELSE Append(items, SalesRecord(i, d))

\* (mutant of NewList: one list shared by the calls, as a mutable default
\* argument would be)
NewListShared(h) ==
    IF DOMAIN h = {} THEN 1 ELSE CHOOSE o \in DOMAIN h : TRUE

\* customers = [] / sales = []: a new list object, no live list has its id
NewList(h) ==
    CHOOSE o \in 1..(Cardinality(DOMAIN h) + 1) : o \notin DOMAIN h

\* the heap without the lists no name refers to
Collect(h, pv) ==
    [o \in {x \in DOMAIN h : \E v \in DOMAIN pv : pv[v] = x} |-> h[o]]

Generators == {"generate_customer_data", "generate_sales_data"}

NoFrame == [fn |-> "none", n |-> 0, i |-> 0, obj |-> None, target |-> "none"]

\* The function is entered with count n; its result will be bound to target.
EnterGenerator(fn, n, target) ==
    LET o == NewList(heap)
        g == [fn |-> fn, n |-> n, draws |-> <<>>, outcome |-> "running"]
    IN
    /\ frame' = [fn |-> fn, n |-> n, i |-> 0, obj |-> o, target |-> target]
    /\ heap' = IF o \in DOMAIN heap THEN heap ELSE heap @@ (o :> <<>>)
    /\ ghost' = IF o \in DOMAIN heap THEN ghost
                ELSE [x \in DOMAIN ghost \cup {o} |->
                          IF x = o THEN g ELSE ghost[x]]

\* One iteration of the for loop.
GenIter ==
    /\ frame # NoFrame
    /\ InRange(frame.i, frame.n)
    /\ ~RecordRaises(frame.fn, round_fn)
    /\ \E d \in Draws(frame.fn) :
        /\ heap' = [heap EXCEPT ![frame.obj] =
                        AppendRecord(frame.fn, @, frame.i, d)]
        /\ ghost' = [ghost EXCEPT ![frame.obj].draws = Append(@, d)]
    /\ frame' = [frame EXCEPT !.i = @ + 1]
    /\ UNCHANGED <<pyvars, round_fn, dfs, tables, session, pc, status, last>>

\* An iteration whose dict literal raises: the exception leaves the
\* function (its list is dropped) and the calling statement; nothing in
\* the notebook catches it, so it ends the run of the cell.
GenRaise ==
    /\ frame # NoFrame
    /\ InRange(frame.i, frame.n)
    /\ RecordRaises(frame.fn, round_fn)
    /\ heap' = Collect(heap, pyvars)
    /\ ghost' = [ghost EXCEPT ![frame.obj].outcome = "raised"]
    /\ frame' = NoFrame
    /\ last' = [cell |-> pc[1], stmt |-> pc[2], outcome |-> "TypeError"]
    /\ status' = IF status = "harness" THEN status ELSE "halted"
    /\ UNCHANGED <<pyvars, round_fn, dfs, tables, session, pc>>

\* return customers / return sales, and the caller's assignment; the run
\* goes on with the next statement of the cell.
GenReturn ==
    /\ frame # NoFrame
    /\ ~InRange(frame.i, frame.n)
    /\ pyvars' = [pyvars EXCEPT ![frame.target] = frame.obj]
    /\ ghost' = [ghost EXCEPT ![frame.obj].outcome = "returned"]
    /\ frame' = NoFrame
    /\ pc' = IF status = "harness" THEN pc ELSE <<pc[1], pc[2] + 1>>
    /\ last' = [cell |-> pc[1], stmt |-> pc[2], outcome |-> "ok"]
    /\ UNCHANGED <<heap, round_fn, dfs, tables, session, status>>

-----------------------------------------------------------------------------
(* Callers of the generators with any count (GenSpec).                     *)

HarnessVars == <<"first", "second">>
NotebookVars == <<"customers_data", "sales_data", "new_sales_data">>
VarNames == {HarnessVars[k] : k \in 1..2} \cup {NotebookVars[k] : k \in 1..3}
DfNames == {"customers_df", "sales_df", "new_sales_df"}
TableNames == {"customers", "sales"}

NoDf == [bound |-> FALSE, columns |-> {}, rows |-> <<>>]
NoTable == [exists |-> FALSE, columns |-> {}, rows |-> <<>>, snapshots |-> <<>>]
NoLast == [cell |-> 0, stmt |-> 0, outcome |-> "none"]

\* first = generate_x(n), then second = generate_y(m)
HarnessCall ==
    /\ status = "harness"
    /\ frame = NoFrame
    /\ \E fn \in Generators, n \in (0 - MaxCount)..MaxCount, k \in 1..2 :
        /\ pyvars[HarnessVars[k]] = None
        /\ k = 2 => pyvars[HarnessVars[1]] # None
        /\ EnterGenerator(fn, n, HarnessVars[k])
    /\ UNCHANGED <<pyvars, round_fn, dfs, tables, session, pc, status, last>>

\* del first, second: both lists become garbage
HarnessReset ==
    /\ status = "harness"
    /\ frame = NoFrame
    /\ pyvars["first"] # None /\ pyvars["second"] # None
    /\ pyvars' = [v \in VarNames |-> None]
    /\ heap' = Collect(heap, pyvars')
    /\ ghost' = Collect(ghost, pyvars')
    /\ last' = NoLast
    /\ UNCHANGED <<frame, round_fn, dfs, tables, session, pc, status>>

\* The generators are called where round is the builtin (cell 6 run in a
\* kernel in which the star import of cell 4 has not run) or where it is
\* pyspark's (the notebook run in order).
HarnessInit ==
    /\ heap = <<>>
    /\ ghost = <<>>
    /\ frame = NoFrame
    /\ pyvars = [v \in VarNames |-> None]
    /\ round_fn \in {Builtin, PySparkRound}
    /\ dfs = [d \in DfNames |-> NoDf]
    /\ tables = [t \in TableNames |-> NoTable]
    /\ session = "none"
    /\ pc = <<0, 0>>
    /\ status = "harness"
    /\ last = NoLast

HarnessNext ==
    \/ HarnessCall
    \/ GenIter
    \/ GenRaise
    \/ GenReturn
    \/ HarnessReset

GenSpec == HarnessInit /\ [][HarnessNext]_vars

-----------------------------------------------------------------------------
(* The notebook: its code cells, as the statements they run in order.      *)

Stmt(op, line, x, y, n, t) ==
    [op |-> op, line |-> line, x |-> x, y |-> y, n |-> n, t |-> t]

\* !command and %pip: a command run in a subshell
Shell(line) == Stmt("shell", line, "", "", 0, {})
\* a statement that touches neither the session nor a third-party module
\* (print, def, import of the standard library, os.environ[...] = ...)
Local(line) == Stmt("local", line, "", "", 0, {})
\* import of a package the notebook installs
Import(line, module) == Stmt("import", line, "", module, 0, {})
\* from module import *
StarImport(line, module) == Stmt("starimport", line, "", module, 0, {})
\* x = fn(n)
Generate(line, x, fn, n) == Stmt("generate", line, x, fn, n, {})
\* a call on the session or on a DataFrame; t: the tables it names
Spark(op, line, x, y, t) == Stmt(op, line, x, y, 0, t)

Cell2 ==
    << Shell(50), Shell(51), Local(52), Local(53),
       Shell(56), Shell(57), Shell(58), Shell(59), Local(61) >>

\* (mutant of Cell4: the log level set before the session is built)
Cell4SessionUsedFirst ==
    << Import(83, "pyspark.sql"), Import(84, "pyspark.sql.types"),
       StarImport(85, "pyspark.sql.functions"), Import(86, "pandas"),
       Local(87), Shell(90),
       Spark("session", 106, "", "", {}),
       Spark("build", 93, "", "", {}),
       Spark("session", 108, "", "", {}),
       Local(109) >>

Cell4 ==
    << Import(83, "pyspark.sql"), Import(84, "pyspark.sql.types"),
       StarImport(85, "pyspark.sql.functions"), Import(86, "pandas"),
       Local(87), Shell(90),
       Spark("build", 93, "", "", {}),
       Spark("session", 106, "", "", {}),
       Spark("session", 108, "", "", {}),
       Local(109) >>

Cell6 ==
    << Local(134), Local(135), Local(138), Local(155),
       Generate(172, "customers_data", "generate_customer_data", NumCustomers),
       Generate(173, "sales_data", "generate_sales_data", NumTransactions),
       Spark("createDataFrame", 175, "customers_df", "customers_data", {}),
       Spark("createDataFrame", 176, "sales_df", "sales_data", {}),
       Spark("withColumn", 179, "sales_df", "", {}),
       Local(184),
       Spark("action", 185, "customers_df", "", {}),
       Spark("action", 186, "sales_df", "", {}),
       Spark("action", 187, "sales_df", "", {}) >>

Cell8 ==
    << Spark("overwrite", 210, "customers_df", "", {"customers"}),
       Spark("overwrite", 217, "sales_df", "", {"sales"}),
       Local(224), Local(227),
       Spark("session", 228, "", "", {}),
       Local(231),
       Spark("query", 232, "", "", {"customers"}),
       Local(235),
       Spark("query", 236, "", "", {"sales"}) >>

Cell10 ==
    << Spark("read", 259, "", "", {"customers"}),
       Spark("read", 260, "", "", {"sales"}),
       Local(262),
       Spark("query", 263, "", "", {"customers"}),
       Spark("query", 264, "", "", {"sales"}),
       Local(267),
       Spark("query", 268, "", "", {"customers"}),
       Local(273),
       Spark("query", 274, "", "", {"sales"}) >>

Cell12 ==
    << Local(303),
       Spark("query", 304, "", "", {"sales"}),
       Local(307),
       Spark("query", 308, "", "", {"sales"}),
       Local(311),
       Generate(314, "new_sales_data", "generate_sales_data", NumNewTransactions),
       Spark("createDataFrame", 315, "new_sales_df", "new_sales_data", {}),
       Spark("withColumn", 316, "new_sales_df", "", {}),
       Spark("append", 322, "new_sales_df", "", {"sales"}),
       Spark("action", 327, "new_sales_df", "", {}),
       Spark("read", 328, "", "", {"sales"}),
       Local(331),
       Spark("query", 332, "", "", {"sales"}) >>

Cell14 ==
    << Local(355),
       Spark("query", 356, "", "", {"customers"}),
       Local(359),
       Spark("alter", 360, "", "", {"customers"}),
       Local(366),
       Spark("query", 367, "", "", {"customers"}),
       Local(370),
       Spark("update", 371, "", "", {"customers"}),
       Local(378),
       Spark("query", 379, "", "", {"customers"}),
       Local(389),
       Spark("query", 390, "", "", {"customers"}) >>

Cell16 ==
    << Local(418),
       Spark("query", 460, "", "", {"customers", "sales"}),
       Spark("query", 482, "", "", {"customers", "sales"}),
       Local(484), Local(485), Local(488),
       Spark("stop", 489, "", "", {}),
       Local(490), Local(491) >>

\* the code cells, top to bottom ("Run all cells")
Program ==
    << Cell2, Cell4, Cell6, Cell8, Cell10, Cell12, Cell14, Cell16 >>

-----------------------------------------------------------------------------
(* The Spark session, the DataFrames and the Iceberg tables.               *)

SparkOps ==
    {"build", "session", "createDataFrame", "withColumn", "action",
     "overwrite", "append", "read", "query", "alter", "update", "stop"}

\* SQL NULL, and a non-null INT
Null == [isnull |-> TRUE, v |-> 0]
IntVal(n) == [isnull |-> FALSE, v |-> n]

\* col('quantity') * col('unit_price') * (1 - col('discount_percentage')),
\* unit_price in cents and the discount in 1/DiscountScale
TotalAmount(quantity, unit_price, discount_percentage) ==
    quantity * unit_price * (DiscountScale - discount_percentage)

\* spark.createDataFrame(data): the rows are the dicts, the columns their keys
CreateDataFrame(items) ==
    [bound |-> TRUE,
     columns |-> IF items = <<>> THEN {} ELSE DOMAIN items[1],
     rows |-> items]

\* df.withColumn('total_amount', ...)
WithColumn(df) ==
    [bound |-> TRUE,
     columns |-> df.columns \cup {"total_amount"},
     rows |-> [k \in 1..Len(df.rows) |->
                  [total_amount |->
                      TotalAmount(df.rows[k].quantity, df.rows[k].unit_price,
                                  df.rows[k].discount_percentage)]
                  @@ df.rows[k]]]

\* df.write.format("iceberg").mode(mode).saveAsTable(table): overwrite
\* replaces the table's data, append adds the rows; either commits a snapshot
WriteTable(mode, tbl, df) ==
    LET rows == IF mode = "overwrite" THEN df.rows ELSE tbl.rows \o df.rows
    IN  [exists |-> TRUE,
         columns |-> IF mode = "overwrite" \/ ~tbl.exists
                     THEN df.columns ELSE tbl.columns,
         rows |-> rows,
         snapshots |-> Append(tbl.snapshots, rows)]

\* ALTER TABLE ... ADD COLUMN loyalty_points INT: a metadata change, the
\* rows written before read NULL in the new column
AddColumn(tbl) ==
    [tbl EXCEPT !.columns = @ \cup {"loyalty_points"},
                !.rows = [k \in 1..Len(@) |->
                             [loyalty_points |-> Null] @@ @[k]]]

\* CAST(credit_limit * 0.1 AS INT): the product is an exact decimal, the
\* cast drops its fraction
LoyaltyPoints(credit_limit) ==
    credit_limit \div 10

\* UPDATE ... SET loyalty_points = ... WHERE customer_segment = 'Premium'
UpdatePremium(tbl) ==
    LET rows == [k \in 1..Len(tbl.rows) |->
                    IF tbl.rows[k].customer_segment = "Premium"
                    THEN [tbl.rows[k] EXCEPT !.loyalty_points =
                              IntVal(LoyaltyPoints(tbl.rows[k].credit_limit))]
                    ELSE tbl.rows[k]]
    IN  [tbl EXCEPT !.rows = rows, !.snapshots = Append(@, rows)]

\* Whether the names the statement uses are bound: spark, the list, the
\* DataFrame.
NamesBound(s) ==
    CASE s.op = "build" -> TRUE
      [] s.op = "createDataFrame" -> session # "none" /\ pyvars[s.y] # None
      [] s.op \in {"withColumn", "action", "overwrite", "append"} ->
            dfs[s.x].bound
      [] OTHER -> session # "none"

\* How a Spark statement can end: a name it uses is unbound; the session
\* is stopped, or a table it reads does not exist, and the engine raises;
\* otherwise it succeeds, or the engine or the table format reports an
\* error of its own.
SparkOutcomes(s) ==
    IF ~NamesBound(s) THEN {"NameError"}
    ELSE IF s.op # "build" /\ session = "stopped" THEN {"failed"}
    ELSE IF s.op \in {"read", "query", "alter", "update"}
            /\ \E t \in s.t : ~tables[t].exists THEN {"failed"}
    ELSE {"ok", "failed"}

DfsAfter(s) ==
    CASE s.op = "createDataFrame" ->
            [dfs EXCEPT ![s.x] = CreateDataFrame(heap[pyvars[s.y]])]
      [] s.op = "withColumn" -> [dfs EXCEPT ![s.x] = WithColumn(@)]
      [] OTHER -> dfs

TablesAfter(s) ==
    CASE s.op \in {"overwrite", "append"} ->
            [t \in TableNames |->
                IF t \in s.t THEN WriteTable(s.op, tables[t], dfs[s.x])
                ELSE tables[t]]
      [] s.op = "alter" ->
            [t \in TableNames |->
                IF t \in s.t THEN AddColumn(tables[t]) ELSE tables[t]]
      [] s.op = "update" ->
            [t \in TableNames |->
                IF t \in s.t THEN UpdatePremium(tables[t]) ELSE tables[t]]
      [] OTHER -> tables

SessionAfter(s) ==
    CASE s.op = "build" -> "active"
      [] s.op = "stop" -> "stopped"
      [] OTHER -> session

-----------------------------------------------------------------------------
(* The run of the notebook.                                                *)

AtStatement ==
    /\ status = "running"
    /\ frame = NoFrame
    /\ pc[2] <= Len(Program[pc[1]])

CurStmt == Program[pc[1]][pc[2]]

Ran(outcome) == [cell |-> pc[1], stmt |-> pc[2], outcome |-> outcome]

NextStmt == <<pc[1], pc[2] + 1>>

\* !command, %pip install: the command's exit status is not turned into
\* an exception, so the cell goes on whether the command succeeded or not.
ShellStmt ==
    /\ AtStatement
    /\ CurStmt.op = "shell"
    /\ \E outcome \in {"ok", "failed"} : last' = Ran(outcome)
    /\ pc' = NextStmt
    /\ UNCHANGED <<heap, ghost, frame, pyvars, round_fn, dfs, tables, session,
                   status>>

LocalStmt ==
    /\ AtStatement
    /\ CurStmt.op = "local"
    /\ last' = Ran("ok")
    /\ pc' = NextStmt
    /\ UNCHANGED <<heap, ghost, frame, pyvars, round_fn, dfs, tables, session,
                   status>>

\* import of an installed package; it raises ImportError when the package
\* is missing. The star import of pyspark.sql.functions rebinds round.
ImportStmt ==
    /\ AtStatement
    /\ CurStmt.op \in {"import", "starimport"}
    /\ \E outcome \in {"ok", "ImportError"} :
        /\ last' = Ran(outcome)
        /\ IF outcome = "ok"
           THEN /\ pc' = NextStmt
                /\ round_fn' = IF CurStmt.op = "starimport"
                               THEN PySparkRound ELSE round_fn
                /\ UNCHANGED status
           ELSE /\ status' = "halted"
                /\ UNCHANGED <<pc, round_fn>>
    /\ UNCHANGED <<heap, ghost, frame, pyvars, dfs, tables, session>>

\* x = generate_customer_data(n) / x = generate_sales_data(n): the call
CallGenerator ==
    /\ AtStatement
    /\ CurStmt.op = "generate"
    /\ EnterGenerator(CurStmt.y, CurStmt.n, CurStmt.x)
    /\ UNCHANGED <<pyvars, round_fn, dfs, tables, session, pc, status, last>>

\* A call on the session, a DataFrame or a table. An exception is caught
\* nowhere: it ends the run, and what ran before stays as it is.
SparkStmt ==
    /\ AtStatement
    /\ CurStmt.op \in SparkOps
    /\ \E outcome \in SparkOutcomes(CurStmt) :
        /\ last' = Ran(outcome)
        /\ IF outcome = "ok"
           THEN /\ dfs' = DfsAfter(CurStmt)
                /\ tables' = TablesAfter(CurStmt)
                /\ session' = SessionAfter(CurStmt)
                /\ pc' = NextStmt
                /\ UNCHANGED status
           ELSE /\ status' = "halted"
                /\ UNCHANGED <<dfs, tables, session, pc>>
    /\ UNCHANGED <<heap, ghost, frame, pyvars, round_fn>>

\* The cell is through: the next cell starts, or the run is over.
NextCell ==
    /\ status = "running"
    /\ frame = NoFrame
    /\ pc[2] > Len(Program[pc[1]])
    /\ IF pc[1] < Len(Program)
       THEN pc' = <<pc[1] + 1, 1>> /\ UNCHANGED status
       ELSE status' = "done" /\ UNCHANGED pc
    /\ UNCHANGED <<heap, ghost, frame, pyvars, round_fn, dfs, tables, session,
                   last>>

\* what an earlier run of the notebook left in the warehouse
StaleTable(t) ==
    IF t = "customers"
    THEN WriteTable("overwrite", NoTable,
                    CreateDataFrame(<<CustomerRecord(7, CustomerDraw(1))>>))
    ELSE WriteTable("overwrite", NoTable,
                    WithColumn(CreateDataFrame(<<SalesRecord(7, SalesDraw(2))>>)))

\* A fresh kernel; the warehouse directory is new or holds the tables of
\* an earlier run.
Init ==
    /\ heap = <<>>
    /\ ghost = <<>>
    /\ frame = NoFrame
    /\ pyvars = [v \in VarNames |-> None]
    /\ round_fn = Builtin
    /\ dfs = [d \in DfNames |-> NoDf]
    /\ tables \in [TableNames -> {NoTable, StaleTable("customers"),
                                  StaleTable("sales")}]
    /\ \A t \in TableNames : tables[t] \in {NoTable, StaleTable(t)}
    /\ session = "none"
    /\ pc = <<1, 1>>
    /\ status = "running"
    /\ last = NoLast

Next ==
    \/ ShellStmt
    \/ LocalStmt
    \/ ImportStmt
    \/ CallGenerator
    \/ GenIter
    \/ GenRaise
    \/ GenReturn
    \/ SparkStmt
    \/ NextCell

Spec == Init /\ [][Next]_vars

-----------------------------------------------------------------------------
(* Properties of the generators (GenSpec).                                 *)

IsCustomer(r) == "customer_segment" \in DOMAIN r
IsSale(r) == "payment_method" \in DOMAIN r

\* every record of every list of the heap, finished or being built
Records ==
    UNION {{heap[o][k] : k \in 1..Len(heap[o])} : o \in DOMAIN heap}

\* C1: a call of generate_customer_data(N) or generate_sales_data(N) with
\* N >= 0 does not raise, and the sequence it returns has exactly N records.
C1_ExactCount ==
    \A o \in DOMAIN ghost :
        ghost[o].n >= 0 =>
            /\ ghost[o].outcome # "raised"
            /\ (ghost[o].outcome = "returned" /\ o \in DOMAIN heap)
                   => Len(heap[o]) = ghost[o].n

\* (C1, where round is the builtin: every call with N >= 0 returns N records)
C1_ExactCountBuiltin ==
    round_fn = Builtin => C1_ExactCount

C4_NumericRanges ==
    \A r \in Records :
        /\ IsCustomer(r) => r.credit_limit \in 1000..50000
        /\ IsSale(r) =>
            /\ r.quantity \in 1..10
            /\ r.unit_price \in 1000..50000
            /\ r.discount_percentage * 10 <= 3 * DiscountScale
            /\ r.discount_percentage >= 0

\* C4 witness: records at both ends of the ranges have been generated.
C4_Witness ==
    /\ \E r \in Records : IsCustomer(r) /\ r.credit_limit = 1000
    /\ \E r \in Records : IsCustomer(r) /\ r.credit_limit = 50000
    /\ \E r \in Records : IsSale(r) /\ r.quantity = 10 /\ r.unit_price = 50000

\* the lists that names of the notebook refer to
Bound == {v \in VarNames : pyvars[v] # None}

\* C5: a call builds a list of its own (no name refers to the list a call
\* is filling, two names never refer to one list), and no step changes a
\* list that an earlier call has returned and a name still refers to.
C5_FreshList ==
    /\ \A v \in Bound : frame # NoFrame => pyvars[v] # frame.obj
    /\ \A v, w \in Bound : v # w => pyvars[v] # pyvars[w]

C5_ReturnedListKept ==
    \A v \in Bound :
        pyvars'[v] = pyvars[v] => heap'[pyvars[v]] = heap[pyvars[v]]

C5_IndependentSequences ==
    [](C5_FreshList) /\ [][C5_ReturnedListKept]_vars

\* C5 witness: a first call has returned a non-empty list, and a second
\* call with the same count has appended to its own list.
C5_Witness ==
    /\ pyvars["first"] # None
    /\ Len(heap[pyvars["first"]]) >= 1
    /\ frame # NoFrame
    /\ frame.n = ghost[pyvars["first"]].n
    /\ frame.fn = ghost[pyvars["first"]].fn
    /\ frame.i >= 1

\* C6: a call with a positive count does not raise, and a call with a
\* count <= 0 that returns, returns the empty sequence.
C6_PositiveNeverFailsNonPositiveEmpty ==
    \A o \in DOMAIN ghost :
        /\ ghost[o].n > 0 => ghost[o].outcome # "raised"
        /\ (ghost[o].n <= 0 /\ ghost[o].outcome = "returned"
            /\ o \in DOMAIN heap) => heap[o] = <<>>

\* (C6, its second half alone: a count <= 0 gives the empty sequence)
C6_NonPositiveEmpty ==
    \A o \in DOMAIN ghost :
        ghost[o].n <= 0 =>
            /\ ghost[o].outcome # "raised"
            /\ o \in DOMAIN heap => heap[o] = <<>>

\* C7: two lists built by the same generator hold the same record at every
\* index where their draws agree, whatever the draws at the other indexes.
C7_RecordsIndependent ==
    \A o1, o2 \in DOMAIN heap :
        ghost[o1].fn = ghost[o2].fn =>
            \A k \in 1..Len(heap[o1]) :
                (k <= Len(heap[o2]) /\ ghost[o1].draws[k] = ghost[o2].draws[k])
                    => heap[o1][k] = heap[o2][k]

\* C7 witness: two lists of the same generator whose draws agree at the
\* second index and differ at the first.
C7_Witness ==
    \E o1, o2 \in DOMAIN heap :
        /\ o1 # o2
        /\ ghost[o1].fn = ghost[o2].fn
        /\ Len(heap[o1]) >= 2 /\ Len(heap[o2]) >= 2
        /\ ghost[o1].draws[2] = ghost[o2].draws[2]
        /\ ghost[o1].draws[1] # ghost[o2].draws[1]
        /\ heap[o1][1] # heap[o2][1]

-----------------------------------------------------------------------------
(* Properties of the notebook's run (Spec).                                *)

\* The run is over and no shell command, import or engine call failed:
\* the notebook ran to its end, or its own code raised.
RunEndedByOwnCode ==
    \/ status = "done"
    \/ status = "halted" /\ last.outcome \notin {"failed", "ImportError"}

\* total_amount = quantity * unit_price * (1 - discount_percentage), the
\* discount read in hundredths and the amount in 1/100 of a cent
TotalIsDerived(r) ==
    r.total_amount = r.quantity * r.unit_price * (100 - r.discount_percentage)

\* the DataFrame holds n sales rows, each with the derived total_amount
BatchWithTotals(df, n) ==
    /\ df.bound
    /\ Len(df.rows) = n
    /\ \A k \in 1..Len(df.rows) :
        "total_amount" \in DOMAIN df.rows[k] /\ TotalIsDerived(df.rows[k])

\* C2: the run produces the initial batch (sales_df) and the appended batch
\* (new_sales_df), and every record of either satisfies
\* total_amount = quantity * unit_price * (1 - discount_percentage).
C2_TotalAmountOfBothBatches ==
    /\ \A d \in {"sales_df", "new_sales_df"} :
        \A k \in 1..Len(dfs[d].rows) :
            "total_amount" \in DOMAIN dfs[d].rows[k]
                => TotalIsDerived(dfs[d].rows[k])
    /\ RunEndedByOwnCode =>
        /\ BatchWithTotals(dfs["sales_df"], NumTransactions)
        /\ BatchWithTotals(dfs["new_sales_df"], NumNewTransactions)

StmtOf(l) == Program[l.cell][l.stmt]

\* the statement that ran last was a successful write of the sales table
\* in the given mode
JustWroteSales(mode) ==
    /\ last.cell > 0
    /\ last.outcome = "ok"
    /\ StmtOf(last).op = mode
    /\ "sales" \in StmtOf(last).t

\* C8: after the overwrite of local.db.sales the table holds exactly the
\* rows of sales_df (NumTransactions rows), whatever it held before; after
\* the append it holds those rows and the NumNewTransactions rows of
\* new_sales_df; and the run gets there unless an outside call fails.
C8_OverwriteThenAppend ==
    /\ JustWroteSales("overwrite") =>
        /\ tables["sales"].rows = dfs["sales_df"].rows
        /\ Len(tables["sales"].rows) = NumTransactions
    /\ JustWroteSales("append") =>
        /\ tables["sales"].rows = dfs["sales_df"].rows \o dfs["new_sales_df"].rows
        /\ Len(tables["sales"].rows) = NumTransactions + NumNewTransactions
    /\ RunEndedByOwnCode =>
        /\ tables["sales"].rows = dfs["sales_df"].rows \o dfs["new_sales_df"].rows
        /\ Len(tables["sales"].rows) = NumTransactions + NumNewTransactions

Positions ==
    UNION {{<<c, k>> : k \in 1..Len(Program[c])} : c \in 1..Len(Program)}

Before(p, q) ==
    p[1] < q[1] \/ (p[1] = q[1] /\ p[2] < q[2])

At(p) == Program[p[1]][p[2]]

UsesSession(s) == s.op \in SparkOps \ {"build"}

\* C9, the order of the statements in the cells: the session is built
\* before every other use of it, a table is overwritten before every other
\* statement on it, and no use of the session follows spark.stop().
C9_ProgramOrder ==
    \A p \in Positions :
        /\ UsesSession(At(p)) =>
            \E q \in Positions : Before(q, p) /\ At(q).op = "build"
        /\ \A t \in At(p).t :
            At(p).op # "overwrite" =>
                \E q \in Positions :
                    Before(q, p) /\ At(q).op = "overwrite" /\ t \in At(q).t
        /\ At(p).op = "stop" =>
            \A q \in Positions : Before(p, q) => At(q).op \notin SparkOps

\* C9, in the run: a statement that uses the session finds it built and
\* not stopped, and one that uses a table finds it there.
C9_RunOrder ==
    AtStatement =>
        /\ UsesSession(CurStmt) => session = "active"
        /\ \A t \in CurStmt.t : CurStmt.op # "overwrite" => tables[t].exists

\* C9, one statement at a time: a step leaves the position where it is,
\* moves it to the next statement of the cell or, the cell being through,
\* to the first statement of the next cell.
C9_Linear ==
    \/ pc' = pc
    \/ pc' = <<pc[1], pc[2] + 1>> /\ pc[2] <= Len(Program[pc[1]])
    \/ pc' = <<pc[1] + 1, 1>> /\ pc[2] > Len(Program[pc[1]])

C10_FailureHaltsCell ==
    /\ [](last.outcome \notin {"ok", "none"} => status = "halted")
    /\ [][status = "halted" => UNCHANGED vars]_vars
    /\ [][(status = "running" /\ status' = "halted") =>
              UNCHANGED <<pyvars, round_fn, dfs, tables, session>>]_vars

\* (C10 for the calls that raise: a failed import or Spark call halts)
C10_RaisedFailureHalts ==
    (last.outcome \notin {"ok", "none"} /\ last.cell > 0
     /\ StmtOf(last).op # "shell") => status = "halted"

-----------------------------------------------------------------------------
(* Properties of the tables: snapshots, schema evolution, keys.            *)

\* s is an initial segment of t
IsPrefix(s, t) ==
    /\ Len(s) <= Len(t)
    /\ \A k \in 1..Len(s) : s[k] = t[k]

\* a step leaves every snapshot a table has as it is, in its place
SnapshotsKept ==
    \A t \in TableNames :
        tables[t].exists =>
            /\ tables'[t].exists
            /\ IsPrefix(tables[t].snapshots, tables'[t].snapshots)

\* the sales table's history ends with the snapshot of the overwrite (the
\* rows of sales_df) and, after it, the snapshot of the append
OverwriteSnapshotThenAppendSnapshot ==
    LET snaps == tables["sales"].snapshots
    IN  /\ Len(snaps) >= 2
        /\ snaps[Len(snaps) - 1] = dfs["sales_df"].rows
        /\ Len(snaps[Len(snaps) - 1]) = NumTransactions
        /\ snaps[Len(snaps)] = tables["sales"].rows
        /\ Len(snaps[Len(snaps)]) = NumTransactions + NumNewTransactions

\* C11: a snapshot is immutable: no step removes or changes a snapshot of a
\* table; the overwrite of local.db.sales and then the append each add one,
\* and after the append (which the run reaches unless an outside call
\* fails) the snapshot of the overwrite still holds exactly the rows
\* written then.
C11_SnapshotsImmutable ==
    /\ [][SnapshotsKept]_vars
    /\ [](JustWroteSales("overwrite") =>
            /\ tables["sales"].snapshots # <<>>
            /\ tables["sales"].snapshots[Len(tables["sales"].snapshots)]
                   = dfs["sales_df"].rows)
    /\ [](JustWroteSales("append") => OverwriteSnapshotThenAppendSnapshot)
    /\ [](RunEndedByOwnCode => OverwriteSnapshotThenAppendSnapshot)

\* (C11, what holds of the run: no step removes or changes a snapshot)
C11_NoSnapshotRemoved ==
    [][SnapshotsKept]_vars

\* the statement that ran last was a successful op on table t
JustRan(op, t) ==
    /\ last.cell > 0
    /\ last.outcome = "ok"
    /\ StmtOf(last).op = op
    /\ t \in StmtOf(last).t

\* row r2 has every column of row r1 but loyalty_points, with r1's value
SameButLoyalty(r1, r2) ==
    \A c \in DOMAIN r1 \ {"loyalty_points"} :
        c \in DOMAIN r2 /\ r2[c] = r1[c]

\* rows2 is rows1 row by row, but for loyalty_points
RowsKeptButLoyalty(rows1, rows2) ==
    /\ Len(rows2) = Len(rows1)
    /\ \A k \in 1..Len(rows1) : SameButLoyalty(rows1[k], rows2[k])

\* a Premium row has loyalty_points = credit_limit * 0.1 cut to an integer,
\* which is in 100..5000; any other row has none
LoyaltyOfPremiumOnly(rows) ==
    \A k \in 1..Len(rows) :
        /\ "loyalty_points" \in DOMAIN rows[k]
        /\ IF rows[k].customer_segment = "Premium"
           THEN /\ ~rows[k].loyalty_points.isnull
                /\ rows[k].loyalty_points.v * 10 <= rows[k].credit_limit
                /\ rows[k].credit_limit < (rows[k].loyalty_points.v + 1) * 10
                /\ rows[k].loyalty_points.v \in 100..5000
           ELSE rows[k].loyalty_points.isnull

\* C12: schema evolution does not break existing data: the ALTER TABLE and
\* the UPDATE of local.db.customers leave the number of rows and every
\* other column of every row as they were; after the UPDATE (which the run
\* reaches unless an outside call fails) every Premium customer has
\* loyalty_points = credit_limit * 0.1 cut to an integer, in 100..5000, and
\* every other customer has no loyalty_points.
C12_SchemaEvolutionKeepsData ==
    /\ [][(JustRan("alter", "customers")' \/ JustRan("update", "customers")')
              => RowsKeptButLoyalty(tables["customers"].rows,
                                    tables'["customers"].rows)]_vars
    /\ [](JustRan("update", "customers") =>
            /\ "loyalty_points" \in tables["customers"].columns
            /\ LoyaltyOfPremiumOnly(tables["customers"].rows))
    /\ [](RunEndedByOwnCode =>
            /\ "loyalty_points" \in tables["customers"].columns
            /\ Len(tables["customers"].rows) = NumCustomers
            /\ tables["customers"].rows # <<>>
            /\ LoyaltyOfPremiumOnly(tables["customers"].rows))

\* the table a generated customer list makes when it is written as the
\* notebook writes customers_data (createDataFrame, then overwrite)
CustomersTableOf(items) ==
    WriteTable("overwrite", NoTable, CreateDataFrame(items))

\* (C12, the ALTER TABLE and the UPDATE applied to the table of any
\* generated customer list: rows and other columns kept, loyalty_points of
\* the Premium rows only)
C12_EvolutionOfGeneratedCustomers ==
    \A o \in DOMAIN heap :
        ghost[o].fn = "generate_customer_data" =>
            LET t0 == CustomersTableOf(heap[o])
                t1 == AddColumn(t0)
                t2 == UpdatePremium(t1)
            IN  /\ RowsKeptButLoyalty(t0.rows, t1.rows)
                /\ RowsKeptButLoyalty(t1.rows, t2.rows)
                /\ \A k \in 1..Len(t1.rows) : t1.rows[k].loyalty_points.isnull
                /\ LoyaltyOfPremiumOnly(t2.rows)

\* the DataFrame a generated sales list makes (createDataFrame, withColumn)
SalesDataFrameOf(items) ==
    WithColumn(CreateDataFrame(items))

\* local.db.sales after the notebook's writes of two generated sales
\* lists: the overwrite with the first, then the append of the second
SalesTableOf(items, more) ==
    WriteTable("append",
               WriteTable("overwrite", NoTable, SalesDataFrameOf(items)),
               SalesDataFrameOf(more))

\* no two rows have the same transaction_id
TransactionIdIsKey(rows) ==
    \A j, k \in 1..Len(rows) :
        j # k => rows[j].transaction_id # rows[k].transaction_id

\* the lists that calls of generate_sales_data(n) have returned
ReturnedSales(n) ==
    {o \in DOMAIN heap : /\ ghost[o].fn = "generate_sales_data"
                         /\ ghost[o].outcome = "returned"
                         /\ ghost[o].n = n}

\* C13: after the overwrite of local.db.sales with the output of
\* generate_sales_data(NumTransactions), and after the append of the output
\* of another call generate_sales_data(NumNewTransactions), no two rows of
\* the table have the same transaction_id.
C13_TransactionIdUnique ==
    \A o1 \in ReturnedSales(NumTransactions) :
        /\ TransactionIdIsKey(
               WriteTable("overwrite", NoTable, SalesDataFrameOf(heap[o1])).rows)
        /\ \A o2 \in ReturnedSales(NumNewTransactions) \ {o1} :
               TransactionIdIsKey(SalesTableOf(heap[o1], heap[o2]).rows)

\* (C13, after the overwrite alone: the rows of one call have distinct ids)
C13_UniqueAfterOverwrite ==
    \A o1 \in ReturnedSales(NumTransactions) :
        TransactionIdIsKey(
            WriteTable("overwrite", NoTable, SalesDataFrameOf(heap[o1])).rows)

-----------------------------------------------------------------------------
(* Properties of the identifiers (GenSpec).                                *)

RECURSIVE DigitsValue(_)
\* the number a sequence of decimal digits writes
DigitsValue(ds) ==
    IF ds = <<>> THEN 0
    ELSE 10 * DigitsValue(SubSeq(ds, 1, Len(ds) - 1)) + ds[Len(ds)]

\* id is prefix followed by i written with exactly width decimal digits
IdOfPosition(id, prefix, width, i) ==
    /\ id.prefix = prefix
    /\ id.suffix = ""
    /\ Len(id.digits) = width
    /\ \A k \in 1..Len(id.digits) : id.digits[k] \in 0..9
    /\ DigitsValue(id.digits) = i

\* C14: in the list of a single generator call the identifiers follow the
\* position and are pairwise distinct: the i-th customer record (i from 0)
\* has customer_id CUST_ and i in 6 digits, the i-th sales record has
\* transaction_id TXN_ and i in 8 digits.
C14_IdsFollowPosition ==
    \A o \in DOMAIN heap :
        /\ \A k \in 1..Len(heap[o]) :
            IF ghost[o].fn = "generate_customer_data"
            THEN IdOfPosition(heap[o][k].customer_id, "CUST_", 6, k - 1)
            ELSE IdOfPosition(heap[o][k].transaction_id, "TXN_", 8, k - 1)
        /\ \A j, k \in 1..Len(heap[o]) :
            j # k =>
                IF ghost[o].fn = "generate_customer_data"
                THEN heap[o][j].customer_id # heap[o][k].customer_id
                ELSE heap[o][j].transaction_id # heap[o][k].transaction_id

\* C14 witness: a call of each generator has returned a list of at least
\* two records.
C14_Witness ==
    /\ \E o \in DOMAIN heap :
        /\ ghost[o].fn = "generate_customer_data"
        /\ ghost[o].outcome = "returned"
        /\ Len(heap[o]) >= 2
    /\ \E o \in DOMAIN heap :
        /\ ghost[o].fn = "generate_sales_data"
        /\ ghost[o].outcome = "returned"
        /\ Len(heap[o]) >= 2

\* the lists that calls of the generator fn have returned
Returned(fn) ==
    {o \in DOMAIN heap : ghost[o].fn = fn /\ ghost[o].outcome = "returned"}

\* the customer_ids of the records of a list
CustomerIds(items) ==
    {items[k].customer_id : k \in 1..Len(items)}

\* C15: the customer reference of every sales record refers to an existing
\* customer: whatever the counts, every record of a list returned by
\* generate_sales_data has the customer_id of some record of the list of
\* generate_customer_data it is used with (a list of at least one customer).
C15_RefersToExistingCustomer ==
    \A c \in Returned("generate_customer_data") :
        heap[c] # <<>> =>
            \A s \in Returned("generate_sales_data") :
                CustomerIds(heap[s]) \subseteq CustomerIds(heap[c])

\* (C15, against the customers of the notebook's call: every sales record
\* has the customer_id that generate_customer_data(1000) gives one of its
\* records, those of index 0..999)
C15_RefersToOneOfThousand ==
    \A r \in Records :
        IsSale(r) =>
            \E i \in 0..(1000 - 1) :
                r.customer_id = CustomerRecord(i, CustomerDraw(1)).customer_id

====
